---- MODULE Spec2Model ----
(***************************************************************************)
(* Model of docs/conf.py, the Sphinx configuration of the OpenDXL Java SDK *)
(* documentation.  Loading the file executes its statements top to bottom; *)
(* pc is the line of the next statement to execute.  The environment of a  *)
(* load (the file ../VERSION, the default text encoding, the process       *)
(* environment, the installed modules) is chosen in Init and never changes.*)
(***************************************************************************)
EXTENDS Integers, Sequences, FiniteSets, TLC

\* Longest content of ../VERSION that is enumerated, in bytes.
MaxLen == 2

\* The bytes the content of ../VERSION is built from:
\* '1', LF, CR and the two bytes of the UTF-8 encoding of U+00E9.
Bytes == {49, 10, 13, 195, 169}

\* Default text encodings open() may get from the locale.
Encodings == {"utf-8", "latin-1", "ascii"}

\* Values the environment variables may hold.
EnvValues == {"", "java -jar plantuml.jar"}

\* Names of the environment variables enumerated.
EnvNames == {"plantuml"}

\* States of the path ../VERSION as open() and read() see it: no such file,
\* no permission to read, a directory, a symbolic link that loops, a FIFO
\* that no process has open for writing, a FIFO whose writer writes nothing,
\* a file that opens and whose read fails (EIO), a readable regular file.
FileStates == {"missing", "denied", "directory", "symlink_loop", "fifo",
               "fifo_idle", "io_error", "ok"}

\* The states in which open('../VERSION', 'r') returns a file object.
OpenableStates == {"fifo_idle", "io_error", "ok"}

\* States of the package recommonmark as line 3 sees it: not installed,
\* installed with a parser module that does not define CommonMarkParser,
\* installed with the class.
ModuleStates == {"missing", "no_name", "installed"}

RECURSIVE SeqsUpTo(_, _)
SeqsUpTo(S, n) ==
    IF n = 0 THEN {<<>>}
    ELSE LET shorter == SeqsUpTo(S, n - 1)
         IN  shorter \cup {Append(s, b) : s \in {t \in shorter : Len(t) = n - 1}, b \in S}

Contents == SeqsUpTo(Bytes, MaxLen)

Environs == UNION {[D -> EnvValues] : D \in SUBSET EnvNames}

VARIABLES
    pc,              \* line of the next statement
    status,          \* "loading", "blocked", "done" or "failed"
    exception,       \* the exception that ended the load, or "none"
    settings,        \* module-level names assigned so far, and their values
    imported,        \* names bound by the import statements
    content_file,    \* the handle of line 8: "unbound", "open" or "closed"
    opens,           \* number of calls of open('../VERSION', 'r')
    reads,           \* number of calls of content_file.read()
    external_reads,  \* the external inputs the load has consulted
    file,            \* ../VERSION: [state, bytes]
    encoding,        \* default text encoding of open() in text mode
    environ,         \* os.environ
    recommonmark     \* the state of the package recommonmark

inputs == <<file, encoding, environ, recommonmark>>
vars == <<pc, status, exception, settings, imported, content_file, opens,
          reads, external_reads, file, encoding, environ, recommonmark>>

----------------------------------------------------------------------------
\* Python values: None is the empty tuple, a str result of getenv a 1-tuple.
None == <<>>

\* os.getenv(name): the value of the variable, None when it is not set.
os_getenv(env, name) ==
    IF name \in DOMAIN env THEN <<env[name]>> ELSE None

IsCont(b) == b >= 128 /\ b <= 191

\* Strict UTF-8: is the byte sequence well formed?
RECURSIVE utf8_valid(_)
utf8_valid(bs) ==
    IF bs = <<>> THEN TRUE
    ELSE LET b == Head(bs)
             n == Len(bs)
         IN  IF b < 128 THEN utf8_valid(Tail(bs))
             ELSE IF b >= 194 /\ b <= 223
                  THEN n >= 2 /\ IsCont(bs[2]) /\ utf8_valid(SubSeq(bs, 3, n))
             ELSE IF b >= 224 /\ b <= 239
                  THEN /\ n >= 3 /\ IsCont(bs[2]) /\ IsCont(bs[3])
                       /\ (b = 224 => bs[2] >= 160)
                       /\ (b = 237 => bs[2] <= 159)
                       /\ utf8_valid(SubSeq(bs, 4, n))
             ELSE IF b >= 240 /\ b <= 244
                  THEN /\ n >= 4 /\ IsCont(bs[2]) /\ IsCont(bs[3]) /\ IsCont(bs[4])
                       /\ (b = 240 => bs[2] >= 144)
                       /\ (b = 244 => bs[2] <= 143)
                       /\ utf8_valid(SubSeq(bs, 5, n))
             ELSE FALSE

\* The code points of a well-formed UTF-8 byte sequence.
RECURSIVE utf8_decode(_)
utf8_decode(bs) ==
    IF bs = <<>> THEN <<>>
    ELSE LET b == Head(bs)
             n == Len(bs)
         IN  IF b < 128 THEN <<b>> \o utf8_decode(Tail(bs))
             ELSE IF b <= 223
                  THEN <<(b - 192) * 64 + (bs[2] - 128)>>
                       \o utf8_decode(SubSeq(bs, 3, n))
             ELSE IF b <= 239
                  THEN <<(b - 224) * 4096 + (bs[2] - 128) * 64 + (bs[3] - 128)>>
                       \o utf8_decode(SubSeq(bs, 4, n))
             ELSE <<(b - 240) * 262144 + (bs[2] - 128) * 4096
                      + (bs[3] - 128) * 64 + (bs[4] - 128)>>
                  \o utf8_decode(SubSeq(bs, 5, n))

ascii_valid(bs) == \A i \in 1..Len(bs) : bs[i] < 128

\* ISO 8859-1 and ASCII map every byte to the code point of the same number.
latin1_decode(bs) == bs

\* Can the bytes be decoded in the encoding (errors='strict')?
decodable(bs, enc) ==
    IF enc = "utf-8" THEN utf8_valid(bs)
    ELSE IF enc = "ascii" THEN ascii_valid(bs)
    ELSE TRUE

\* The mutant of decode: the encoding is fixed to UTF-8 where it can be.
decode_always_utf8(bs, enc) ==
    IF utf8_valid(bs) THEN utf8_decode(bs) ELSE latin1_decode(bs)

\* The text of the bytes in the encoding open() was given by default.
decode(bs, enc) ==
    IF enc = "utf-8" THEN utf8_decode(bs) ELSE latin1_decode(bs)

\* Text mode with newline=None: "\r\n" and "\r" are read as "\n".
RECURSIVE universal_newlines(_)
universal_newlines(t) ==
    IF t = <<>> THEN <<>>
    ELSE IF Head(t) = 13
         THEN IF Len(t) >= 2 /\ t[2] = 10
              THEN <<10>> \o universal_newlines(SubSeq(t, 3, Len(t)))
              ELSE <<10>> \o universal_newlines(Tail(t))
         ELSE <<Head(t)>> \o universal_newlines(Tail(t))

\* What content_file.read() returns for the bytes of the file.
read_text(bs, enc) == universal_newlines(decode(bs, enc))

\* str.rstrip() on a text: used by the mutants only.
RECURSIVE rstrip(_)
rstrip(t) ==
    IF t # <<>> /\ t[Len(t)] \in {9, 10, 11, 12, 13, 32}
    THEN rstrip(SubSeq(t, 1, Len(t) - 1))
    ELSE t

\* Binding a module-level name.
Assign(s, name, value) ==
    [k \in DOMAIN s \cup {name} |-> IF k = name THEN value ELSE s[k]]

Defined(name) == name \in DOMAIN settings

----------------------------------------------------------------------------
Init ==
    /\ pc = 2
    /\ status = "loading"
    /\ exception = "none"
    /\ settings = <<>>
    /\ imported = <<>>
    /\ content_file = "unbound"
    /\ opens = 0
    /\ reads = 0
    /\ external_reads = {}
    /\ file \in {[state |-> "ok", bytes |-> bs] : bs \in Contents}
                \cup {[state |-> st, bytes |-> <<>>] : st \in FileStates \ {"ok"}}
    /\ encoding \in Encodings
    /\ environ \in Environs
    /\ recommonmark \in ModuleStates

\* A statement `name = value` at `line`, followed by the statement at `next`.
AssignStmt(line, next, name, value) ==
    /\ status = "loading"
    /\ pc = line
    /\ settings' = Assign(settings, name, value)
    /\ pc' = next
    /\ UNCHANGED <<status, exception, imported, content_file, opens, reads,
                   external_reads, inputs>>

\* An exception leaves the statement at pc: nothing catches it, the load ends.
Raise(exc) ==
    /\ status' = "failed"
    /\ exception' = exc
    /\ UNCHANGED <<pc, settings, inputs>>

\* line 2: import sys, os
import_sys_os ==
    /\ status = "loading"
    /\ pc = 2
    /\ imported' = Assign(Assign(imported, "sys", "module sys"), "os", "module os")
    /\ external_reads' = external_reads \cup {"module sys", "module os"}
    /\ pc' = 3
    /\ UNCHANGED <<status, exception, settings, content_file, opens, reads, inputs>>

\* line 3: from recommonmark.parser import CommonMarkParser
import_CommonMarkParser ==
    /\ status = "loading"
    /\ pc = 3
    /\ external_reads' = external_reads \cup {"module recommonmark.parser"}
    /\ IF recommonmark = "installed"
       THEN /\ imported' = Assign(imported, "CommonMarkParser",
                                  "class recommonmark.parser.CommonMarkParser")
            /\ pc' = 5
            /\ UNCHANGED <<status, exception, settings, inputs>>
       ELSE /\ Raise(IF recommonmark = "missing" THEN "ModuleNotFoundError"
                                                 ELSE "ImportError")
            /\ UNCHANGED imported
    /\ UNCHANGED <<content_file, opens, reads>>

project == AssignStmt(5, 6, "project", "OpenDXL Java SDK")

copyright == AssignStmt(6, 8, "copyright", "2019, McAfee LLC")

\* The exception open('../VERSION', 'r') raises for a path it cannot open.
open_error(state) ==
    CASE state = "missing" -> "FileNotFoundError"
      [] state = "denied" -> "PermissionError"
      [] state = "directory" -> "IsADirectoryError"
      [] state = "symlink_loop" -> "OSError"

\* The mutant of open_VERSION: a failed open falls back to a default version.
open_VERSION_fallback ==
    /\ status = "loading"
    /\ pc = 8
    /\ opens' = opens + 1
    /\ external_reads' = external_reads \cup {"file ../VERSION"}
    /\ IF file.state \in OpenableStates
       THEN /\ content_file' = "open"
            /\ pc' = 9
            /\ UNCHANGED settings
       ELSE /\ settings' = Assign(settings, "VERSION", <<63>>)
            /\ pc' = 11
            /\ UNCHANGED content_file
    /\ UNCHANGED <<status, exception, imported, reads, inputs>>

\* line 8: with open('../VERSION', 'r') as content_file:
open_VERSION ==
    /\ status = "loading"
    /\ pc = 8
    /\ opens' = opens + 1
    /\ external_reads' = external_reads \cup {"file ../VERSION"}
    /\ IF file.state \in OpenableStates
       THEN /\ content_file' = "open"
            /\ pc' = 9
            /\ UNCHANGED <<status, exception, settings, inputs>>
       ELSE IF file.state = "fifo"
       THEN \* open() waits for a writer that never comes: it does not return
            /\ status' = "blocked"
            /\ UNCHANGED <<pc, exception, settings, content_file, inputs>>
       ELSE /\ Raise(open_error(file.state))
            /\ UNCHANGED content_file
    /\ UNCHANGED <<imported, reads>>

\* The mutant of content_file_read: the value read is stripped.
content_file_read_strip ==
    /\ status = "loading"
    /\ pc = 9
    /\ reads' = reads + 1
    /\ IF file.state = "fifo_idle"
       THEN \* read() waits for bytes that never come: the block is not left
            /\ status' = "blocked"
            /\ UNCHANGED <<pc, exception, settings, content_file, inputs>>
       ELSE /\ content_file' = "closed"
            /\ IF file.state = "io_error"
               THEN Raise("OSError")
               ELSE IF decodable(file.bytes, encoding)
               THEN /\ settings' = Assign(settings, "VERSION",
                                          rstrip(read_text(file.bytes, encoding)))
                    /\ pc' = 11
                    /\ UNCHANGED <<status, exception, inputs>>
               ELSE Raise("UnicodeDecodeError")
    /\ UNCHANGED <<imported, opens, external_reads>>

\* The mutant of content_file_read: no with statement, close() follows read().
content_file_read_no_with ==
    /\ status = "loading"
    /\ pc = 9
    /\ reads' = reads + 1
    /\ IF file.state = "fifo_idle"
       THEN /\ status' = "blocked"
            /\ UNCHANGED <<pc, exception, settings, content_file, inputs>>
       ELSE IF file.state = "ok" /\ decodable(file.bytes, encoding)
       THEN /\ settings' = Assign(settings, "VERSION",
                                  read_text(file.bytes, encoding))
            /\ content_file' = "closed"
            /\ pc' = 11
            /\ UNCHANGED <<status, exception, inputs>>
       ELSE /\ Raise(IF file.state = "io_error" THEN "OSError"
                                                ELSE "UnicodeDecodeError")
            /\ UNCHANGED content_file
    /\ UNCHANGED <<imported, opens, external_reads>>

\* line 9: VERSION = content_file.read(), and the exit of the with block,
\* which closes content_file whether read() returned or raised.  A read()
\* that never returns leaves the load inside the block, the file open.
content_file_read ==
    /\ status = "loading"
    /\ pc = 9
    /\ reads' = reads + 1
    /\ IF file.state = "fifo_idle"
       THEN \* read() waits for bytes that never come: the block is not left
            /\ status' = "blocked"
            /\ UNCHANGED <<pc, exception, settings, content_file, inputs>>
       ELSE /\ content_file' = "closed"
            /\ IF file.state = "io_error"
               THEN Raise("OSError")
               ELSE IF decodable(file.bytes, encoding)
               THEN /\ settings' = Assign(settings, "VERSION",
                                          read_text(file.bytes, encoding))
                    /\ pc' = 11
                    /\ UNCHANGED <<status, exception, inputs>>
               ELSE Raise("UnicodeDecodeError")
    /\ UNCHANGED <<imported, opens, external_reads>>

\* The mutant of version: the value read is stripped of trailing whitespace.
version_stripped == AssignStmt(11, 12, "version", rstrip(settings["VERSION"]))

\* line 11
version == AssignStmt(11, 12, "version", settings["VERSION"])

\* The mutant of release: the file is opened and read again.
release_rereads ==
    /\ status = "loading"
    /\ pc = 12
    /\ opens' = opens + 1
    /\ reads' = reads + 1
    /\ settings' = Assign(settings, "release", read_text(file.bytes, encoding))
    /\ pc' = 15
    /\ UNCHANGED <<status, exception, imported, content_file, external_reads,
                   inputs>>

\* line 12
release == AssignStmt(12, 15, "release", settings["VERSION"])

\* lines 15-18: general options
needs_sphinx == AssignStmt(15, 16, "needs_sphinx", "1.0")

master_doc == AssignStmt(16, 17, "master_doc", "index")

pygments_style == AssignStmt(17, 18, "pygments_style", "tango")

add_function_parentheses == AssignStmt(18, 20, "add_function_parentheses", TRUE)

\* lines 20-21
extensions ==
    AssignStmt(20, 23, "extensions",
               <<"sphinx.ext.autodoc", "javasphinx", "sphinxcontrib.plantuml">>)

templates_path == AssignStmt(23, 24, "templates_path", <<"_templates">>)

exclude_trees == AssignStmt(24, 25, "exclude_trees", <<".build">>)

\* The mutant of source_suffix: only reStructuredText is a source file.
source_suffix_rst_only == AssignStmt(25, 26, "source_suffix", <<".rst">>)

\* line 25
source_suffix == AssignStmt(25, 26, "source_suffix", <<".rst", ".md">>)

source_encoding == AssignStmt(26, 27, "source_encoding", "utf-8-sig")

\* lines 27-29: the dict {'.md': CommonMarkParser}
source_parsers ==
    AssignStmt(27, 32, "source_parsers", (".md" :> imported["CommonMarkParser"]))

\* lines 32-37: HTML options
html_theme == AssignStmt(32, 33, "html_theme", "sphinx_rtd_theme")

html_short_title == AssignStmt(33, 34, "html_short_title", "my-project")

htmlhelp_basename == AssignStmt(34, 35, "htmlhelp_basename", "my-project-doc")

html_use_index == AssignStmt(35, 36, "html_use_index", TRUE)

html_show_sourcelink == AssignStmt(36, 37, "html_show_sourcelink", FALSE)

html_static_path == AssignStmt(37, 40, "html_static_path", <<"_static">>)

\* The mutant of plantuml: the variable is indexed in os.environ.
plantuml_environ_index ==
    /\ status = "loading"
    /\ pc = 40
    /\ external_reads' = external_reads \cup {"environ plantuml"}
    /\ IF "plantuml" \in DOMAIN environ
       THEN /\ settings' = Assign(settings, "plantuml", <<environ["plantuml"]>>)
            /\ pc' = 42
            /\ UNCHANGED <<status, exception, inputs>>
       ELSE Raise("KeyError")
    /\ UNCHANGED <<imported, content_file, opens, reads>>

\* The mutant of plantuml: the command is a fixed default.
plantuml_default ==
    /\ status = "loading"
    /\ pc = 40
    /\ settings' = Assign(settings, "plantuml", <<"plantuml">>)
    /\ external_reads' = external_reads \cup {"environ plantuml"}
    /\ pc' = 42
    /\ UNCHANGED <<status, exception, imported, content_file, opens, reads,
                   inputs>>

\* line 40: plantuml = os.getenv('plantuml')
plantuml ==
    /\ status = "loading"
    /\ pc = 40
    /\ settings' = Assign(settings, "plantuml", os_getenv(environ, "plantuml"))
    /\ external_reads' = external_reads \cup {"environ plantuml"}
    /\ pc' = 42
    /\ UNCHANGED <<status, exception, imported, content_file, opens, reads,
                   inputs>>

\* The mutant of html_static_path_again: the second assignment adds a directory.
html_static_path_changed ==
    AssignStmt(42, 43, "html_static_path", <<"_static", "_theme">>)

\* line 42: the second assignment of html_static_path
html_static_path_again == AssignStmt(42, 43, "html_static_path", <<"_static">>)

\* lines 43-47
html_context ==
    AssignStmt(43, 48, "html_context",
               [css_files |-> <<"_static/theme_overrides.css">>])

\* The last statement has run: the module body returns.
end_of_file ==
    /\ status = "loading"
    /\ pc = 48
    /\ status' = "done"
    /\ UNCHANGED <<pc, exception, settings, imported, content_file, opens,
                   reads, external_reads, inputs>>

Next ==
    \/ import_sys_os
    \/ import_CommonMarkParser
    \/ project
    \/ copyright
    \/ open_VERSION
    \/ content_file_read
    \/ version
    \/ release
    \/ needs_sphinx
    \/ master_doc
    \/ pygments_style
    \/ add_function_parentheses
    \/ extensions
    \/ templates_path
    \/ exclude_trees
    \/ source_suffix
    \/ source_encoding
    \/ source_parsers
    \/ html_theme
    \/ html_short_title
    \/ htmlhelp_basename
    \/ html_use_index
    \/ html_show_sourcelink
    \/ html_static_path
    \/ plantuml
    \/ html_static_path_again
    \/ html_context
    \/ end_of_file

Spec == Init /\ [][Next]_vars

\* The interpreter runs the next statement whenever there is one.
FairSpec == Spec /\ WF_vars(Next)

----------------------------------------------------------------------------
\* Every module-level name conf.py assigns.
AllSettings ==
    {"project", "copyright", "VERSION", "version", "release", "needs_sphinx",
     "master_doc", "pygments_style", "add_function_parentheses", "extensions",
     "templates_path", "exclude_trees", "source_suffix", "source_encoding",
     "source_parsers", "html_theme", "html_short_title", "htmlhelp_basename",
     "html_use_index", "html_show_sourcelink", "html_static_path", "plantuml",
     "html_context"}

\* The names assigned by the read of line 9 and by the statements after it.
SettingsAfterOpen == AllSettings \ {"project", "copyright"}

\* The states of ../VERSION in which open() raises, and what it raises.
UnopenableStates == FileStates \ (OpenableStates \cup {"fifo"})

OpenErrors == {open_error(st) : st \in UnopenableStates}

\* C1: when open('../VERSION') fails (the path is missing, unreadable, a
\* directory or a looping link), the exception ends the load at line 8:
\* the file is opened once and never read, nothing runs afterwards, and no
\* name assigned after the open (VERSION, version, release, ...) is defined.
C1_OpenFailureEndsLoad ==
    (opens > 0 /\ file.state \in {"missing", "denied", "directory",
                                  "symlink_loop"}) =>
        /\ status = "failed"
        /\ (file.state = "missing") => (exception = "FileNotFoundError")
        /\ (file.state = "denied") => (exception = "PermissionError")
        /\ (file.state = "directory") => (exception = "IsADirectoryError")
        /\ (file.state = "symlink_loop") => (exception = "OSError")
        /\ pc = 8
        /\ opens = 1
        /\ reads = 0
        /\ \A k \in SettingsAfterOpen : ~Defined(k)
        /\ ~ENABLED Next

\* C1 witness: a load that failed on a missing file, after lines 5 and 6 ran.
C1_Witness ==
    /\ status = "failed"
    /\ exception = "FileNotFoundError"
    /\ file.state = "missing"
    /\ Defined("project")
    /\ ~Defined("version")

\* C2 as stated: a load fails only when ../VERSION is missing.
C2_OnlyMissingFileFails == (status = "failed") => (file.state = "missing")

\* The inputs under which no statement of conf.py raises.
LoadableInputs ==
    /\ recommonmark = "installed"
    /\ file.state = "ok"
    /\ decodable(file.bytes, encoding)

\* C2 amended: a load fails only at the import of line 3, at the open of
\* line 8 or at the read of line 9 (an I/O error or undecodable bytes), and
\* it hangs only in the open of a FIFO without a writer or in the read of a
\* FIFO whose writer writes nothing; with
\* recommonmark.parser.CommonMarkParser importable and ../VERSION a file
\* that can be opened, read and decoded, the load reaches the end of the
\* file with every setting assigned, whatever the environment variables.
C2_FailureModes ==
    /\ [](status = "blocked" =>
            \/ pc = 8 /\ file.state = "fifo" /\ reads = 0
            \/ pc = 9 /\ file.state = "fifo_idle" /\ reads = 1)
    /\ [](status = "failed" =>
            \/ /\ pc = 3 /\ recommonmark # "installed"
               /\ exception \in {"ModuleNotFoundError", "ImportError"}
            \/ /\ pc = 8 /\ file.state \in UnopenableStates
               /\ exception \in OpenErrors
            \/ /\ pc = 9 /\ exception = "UnicodeDecodeError"
               /\ file.state = "ok" /\ ~decodable(file.bytes, encoding)
            \/ pc = 9 /\ exception = "OSError" /\ file.state = "io_error")
    /\ (LoadableInputs ~> (status = "done" /\ DOMAIN settings = AllSettings))

\* C2 witness: a complete load with the variable plantuml not set.
C2_Witness ==
    /\ status = "done"
    /\ DOMAIN settings = AllSettings
    /\ "plantuml" \notin DOMAIN environ

\* C3 as stated: ../VERSION is the only external input read, and the settings
\* are what they would be under any other environment and default encoding.
C3_OnlyVersionFileRead ==
    (status = "done") =>
        /\ external_reads = {"file ../VERSION"}
        /\ \A e \in Environs : os_getenv(e, "plantuml") = settings["plantuml"]
        /\ \A enc \in Encodings :
              decodable(file.bytes, enc) =>
                  universal_newlines(IF enc = "utf-8" THEN utf8_decode(file.bytes)
                                                      ELSE file.bytes)
                      = settings["version"]

\* The settings that do not depend on the environment variables, for the
\* text read from ../VERSION.
SettingsOfText(text) ==
    [k \in AllSettings \ {"plantuml"} |->
        CASE k = "project" -> "OpenDXL Java SDK"
          [] k = "copyright" -> "2019, McAfee LLC"
          [] k \in {"VERSION", "version", "release"} -> text
          [] k = "needs_sphinx" -> "1.0"
          [] k = "master_doc" -> "index"
          [] k = "pygments_style" -> "tango"
          [] k = "add_function_parentheses" -> TRUE
          [] k = "extensions" ->
                <<"sphinx.ext.autodoc", "javasphinx", "sphinxcontrib.plantuml">>
          [] k = "templates_path" -> <<"_templates">>
          [] k = "exclude_trees" -> <<".build">>
          [] k = "source_suffix" -> <<".rst", ".md">>
          [] k = "source_encoding" -> "utf-8-sig"
          [] k = "source_parsers" ->
                (".md" :> "class recommonmark.parser.CommonMarkParser")
          [] k = "html_theme" -> "sphinx_rtd_theme"
          [] k = "html_short_title" -> "my-project"
          [] k = "htmlhelp_basename" -> "my-project-doc"
          [] k = "html_use_index" -> TRUE
          [] k = "html_show_sourcelink" -> FALSE
          [] k = "html_static_path" -> <<"_static">>
          [] k = "html_context" ->
                [css_files |-> <<"_static/theme_overrides.css">>]]

\* C3 amended: after a load, every setting but plantuml is determined by the
\* text read from ../VERSION and the imported CommonMarkParser class;
\* plantuml is the environment variable plantuml (None when it is not set);
\* the external inputs read are ../VERSION, that variable and the three
\* imported modules.
C3_SettingsDependOnFileAndEnviron ==
    (status = "done") =>
        /\ external_reads = {"module sys", "module os",
                             "module recommonmark.parser",
                             "file ../VERSION", "environ plantuml"}
        /\ settings["plantuml"] = (IF "plantuml" \in DOMAIN environ
                                   THEN <<environ["plantuml"]>> ELSE <<>>)
        /\ [k \in DOMAIN settings \ {"plantuml"} |-> settings[k]]
              = SettingsOfText(read_text(file.bytes, encoding))

\* C3 witness: a complete load that took plantuml from the environment.
C3_Witness ==
    /\ status = "done"
    /\ "plantuml" \in DOMAIN environ
    /\ settings["plantuml"] = <<"java -jar plantuml.jar">>

\* C4 as stated: after a successful load, version is never empty.
C4_VersionNonEmpty == (status = "done") => (settings["version"] # <<>>)

\* C4 amended: after a successful load, version is empty exactly when
\* ../VERSION is empty.
C4_VersionEmptyIffFileEmpty ==
    (status = "done") => ((settings["version"] = <<>>) <=> (file.bytes = <<>>))

\* C4 witness: a complete load of an empty ../VERSION.
C4_Witness ==
    /\ status = "done"
    /\ file.bytes = <<>>
    /\ settings["version"] = <<>>

\* C5 as stated: whatever the default encoding, the read of a readable
\* file decodes UTF-8.
C5_AlwaysUTF8 ==
    (reads > 0 /\ file.state = "ok") =>
        IF utf8_valid(file.bytes)
        THEN /\ Defined("VERSION")
             /\ settings["VERSION"] = universal_newlines(utf8_decode(file.bytes))
        ELSE exception = "UnicodeDecodeError"

\* C5 amended: the read decodes the bytes of a readable ../VERSION in the
\* default text encoding of the process: UTF-8 only when that encoding is
\* UTF-8, one code point per byte under ISO 8859-1 and ASCII, and ASCII
\* rejects bytes above 127.
C5_DefaultEncodingDecodes ==
    (reads > 0 /\ file.state = "ok") =>
        CASE encoding = "utf-8" ->
                IF utf8_valid(file.bytes)
                THEN /\ Defined("VERSION")
                     /\ settings["VERSION"]
                           = universal_newlines(utf8_decode(file.bytes))
                ELSE exception = "UnicodeDecodeError"
          [] encoding = "latin-1" ->
                /\ Defined("VERSION")
                /\ settings["VERSION"] = universal_newlines(file.bytes)
          [] encoding = "ascii" ->
                IF ascii_valid(file.bytes)
                THEN /\ Defined("VERSION")
                     /\ settings["VERSION"] = universal_newlines(file.bytes)
                ELSE exception = "UnicodeDecodeError"

\* C5 witness: the two bytes of U+00E9 read as two characters under latin-1.
C5_Witness ==
    /\ reads > 0
    /\ encoding = "latin-1"
    /\ file.bytes = <<195, 169>>
    /\ Defined("VERSION")
    /\ settings["VERSION"] = <<195, 169>>

\* C6: ../VERSION is opened at most once and read at most once, and every
\* name from version on is assigned only after the one open and the one read.
C6_ReadOnceBeforeVersion ==
    /\ opens <= 1
    /\ reads <= opens
    /\ (\E k \in SettingsAfterOpen : Defined(k)) => (opens = 1 /\ reads = 1)

\* C6 witness: a complete load, with its one open and one read.
C6_Witness ==
    /\ status = "done"
    /\ Defined("release")
    /\ opens = 1
    /\ reads = 1

\* C7: after a successful load, version and release are equal and are the
\* whole text read from ../VERSION, a trailing newline included.
C7_VersionIsWholeText ==
    (status = "done") =>
        /\ settings["version"] = settings["release"]
        /\ settings["version"] = read_text(file.bytes, encoding)

\* C7 witness: a complete load of "1\n", the newline kept in version.
C7_Witness ==
    /\ status = "done"
    /\ file.bytes = <<49, 10>>
    /\ settings["version"] = <<49, 10>>
    /\ settings["release"] = <<49, 10>>

\* C8: a name that is assigned keeps its value in every later state.
C8_SettingsAreConstants ==
    [][\A k \in DOMAIN settings :
          k \in DOMAIN settings' /\ settings'[k] = settings[k]]_vars

\* C8 witness: html_static_path after its second assignment.
C8_Witness ==
    /\ pc = 43
    /\ settings["html_static_path"] = <<"_static">>

\* C9: content_file is open only between the open of line 8 and the end of
\* the read of line 9; once the read has returned or raised (a decoding
\* error, an I/O error), it is closed.  A read that never returns has not
\* left the read step: the file is open while the load hangs in it.
C9_HandleClosedAfterRead ==
    /\ (reads > 0 /\ status # "blocked") => (content_file = "closed")
    /\ (content_file = "open") =>
          /\ pc = 9
          /\ \/ status = "loading" /\ reads = 0
             \/ status = "blocked" /\ reads = 1 /\ file.state = "fifo_idle"

\* C9 witness: read() raised after a successful open, and the file is closed.
C9_Witness ==
    /\ status = "failed"
    /\ exception = "OSError"
    /\ reads = 1
    /\ opens = 1
    /\ content_file = "closed"

\* C10: after a successful load, every suffix with a parser in
\* source_parsers is one of the suffixes of source_suffix.
C10_ParsersHaveSourceSuffix ==
    (status = "done") =>
        \A sfx \in DOMAIN settings["source_parsers"] :
            \E i \in 1..Len(settings["source_suffix"]) :
                settings["source_suffix"][i] = sfx

\* C10 witness: a complete load with the parser of ".md" registered.
C10_Witness ==
    /\ status = "done"
    /\ DOMAIN settings["source_parsers"] = {".md"}
    /\ settings["source_suffix"] = <<".rst", ".md">>

====
